---------------------------- MODULE Spec2Model ----------------------------
(***************************************************************************)
(* Model of backend/server.py, the HTTP backend of the agriculture         *)
(* assistant: the weather lookup, the advisory generators with their       *)
(* response extraction and deterministic fallbacks, the market price       *)
(* simulator and the document store they write to.                         *)
(*                                                                         *)
(* Conventions.                                                            *)
(*  - Texts are strings, read one character at a time with SubSeq.  The    *)
(*    backquote cannot be written inside a string of this language, so the *)
(*    tilde stands for it throughout: the fence markers of the source are  *)
(*    written "~~~json" and "~~~".                                         *)
(*  - Python floats are fixed-point integers; the scale is in the name of  *)
(*    the definition or in its comment.                                    *)
(*  - A handler is one atomic action: a request runs to completion.        *)
(*  - insert_one always succeeds (the store is a reliable collaborator).   *)
(***************************************************************************)
EXTENDS Integers, Sequences, FiniteSets, TLC

-----------------------------------------------------------------------------
(* Python string primitives used by the handlers.  Python indices are      *)
(* 0-based, SubSeq is 1-based.                                             *)

Min2(a, b) == IF a < b THEN a ELSE b
Max2(a, b) == IF a > b THEN a ELSE b

Ch(s, i) == SubSeq(s, i, i)

\* s[i-1:].startswith(lit)
StartsAt(s, i, lit) ==
    i + Len(lit) - 1 <= Len(s) /\ SubSeq(s, i, i + Len(lit) - 1) = lit

\* str.find(sub, start): the lowest index >= start where sub occurs, else -1
PyFind(s, sub, start) ==
    LET hits == {i \in start..(Len(s) - Len(sub)) : StartsAt(s, i + 1, sub)}
    IN  IF hits = {} THEN -1 ELSE CHOOSE i \in hits : \A j \in hits : i <= j

\* sub in s
PyContains(s, sub) == PyFind(s, sub, 0) # -1

\* s[a:b]: a negative index counts from the end, both ends are clipped
PySliceIndex(s, i) == IF i < 0 THEN Max2(i + Len(s), 0) ELSE Min2(i, Len(s))
PySlice(s, a, b) == SubSeq(s, PySliceIndex(s, a) + 1, PySliceIndex(s, b))

Whitespace == {" ", "\n", "\t", "\r"}

\* str.strip()
PyStrip(s) ==
    LET solid == {i \in 1..Len(s) : Ch(s, i) \notin Whitespace}
    IN  IF solid = {} THEN ""
        ELSE SubSeq(s, CHOOSE i \in solid : \A j \in solid : i <= j,
                       CHOOSE i \in solid : \A j \in solid : i >= j)

UpperCase == [c \in {"C", "O", "R", "N", "W", "H", "E", "A", "T"} |->
                CASE c = "C" -> "c" [] c = "O" -> "o" [] c = "R" -> "r"
                  [] c = "N" -> "n" [] c = "W" -> "w" [] c = "H" -> "h"
                  [] c = "E" -> "e" [] c = "A" -> "a" [] c = "T" -> "t"]

\* str.lower(), on the letters the crop names of the model use
RECURSIVE PyLower(_)
PyLower(s) ==
    IF s = "" THEN ""
    ELSE (IF Ch(s, 1) \in DOMAIN UpperCase THEN UpperCase[Ch(s, 1)] ELSE Ch(s, 1))
         \o PyLower(SubSeq(s, 2, Len(s)))

-----------------------------------------------------------------------------
(* json.loads, for the JSON subset the model's texts are written in:       *)
(* null, true, false, integers, strings without escapes, arrays, objects,  *)
(* and the four whitespace characters.  Any other text is a               *)
(* JSONDecodeError.  Values are tagged records; an object is a function    *)
(* from its keys, a later duplicate key replacing an earlier one.          *)

JNull == [t |-> "null"]
JBool(b) == [t |-> "bool", b |-> b]
JNum(n) == [t |-> "num", n |-> n]
JStr(s) == [t |-> "str", s |-> s]
JList(items) == [t |-> "list", items |-> items]
JObj(fields) == [t |-> "obj", fields |-> fields]

NoFields == [k \in {} |-> JNull]

Digits == [c \in {"0", "1", "2", "3", "4", "5", "6", "7", "8", "9"} |->
             CASE c = "0" -> 0 [] c = "1" -> 1 [] c = "2" -> 2 [] c = "3" -> 3
               [] c = "4" -> 4 [] c = "5" -> 5 [] c = "6" -> 6 [] c = "7" -> 7
               [] c = "8" -> 8 [] c = "9" -> 9]

ParseFail == [ok |-> FALSE, val |-> JNull, pos |-> 0]
ParseOk(v, p) == [ok |-> TRUE, val |-> v, pos |-> p]

\* the first position >= i that holds no whitespace (Len(s) + 1 at the end)
RECURSIVE SkipWs(_, _)
SkipWs(s, i) ==
    IF i <= Len(s) /\ Ch(s, i) \in Whitespace THEN SkipWs(s, i + 1) ELSE i

\* the digits starting at i: value so far in acc
RECURSIVE ParseDigits(_, _, _)
ParseDigits(s, i, acc) ==
    IF i <= Len(s) /\ Ch(s, i) \in DOMAIN Digits
    THEN ParseDigits(s, i + 1, 10 * acc + Digits[Ch(s, i)])
    ELSE [val |-> acc, pos |-> i]

\* (0|[1-9][0-9]*) at j, after the sign
ParseUnsigned(s, j, negative) ==
    IF j > Len(s) \/ Ch(s, j) \notin DOMAIN Digits THEN ParseFail
    ELSE IF Ch(s, j) = "0" THEN ParseOk(JNum(0), j + 1)
    ELSE ParseOk(JNum(IF negative THEN 0 - ParseDigits(s, j, 0).val
                      ELSE ParseDigits(s, j, 0).val),
                 ParseDigits(s, j, 0).pos)

\* -?(0|[1-9][0-9]*)
ParseNumber(s, i) ==
    IF Ch(s, i) = "-" THEN ParseUnsigned(s, i + 1, TRUE) ELSE ParseUnsigned(s, i, FALSE)

StringBody(body, close) ==
    IF \E k \in 1..Len(body) : Ch(body, k) \in {"\\", "\n", "\t", "\r"}
    THEN ParseFail
    ELSE ParseOk(JStr(body), close + 1)

StringUpTo(s, i, close) ==
    IF close = 0 THEN ParseFail ELSE StringBody(SubSeq(s, i + 1, close - 1), close)

\* "...": no escape sequences, no control characters inside
ParseString(s, i) == StringUpTo(s, i, PyFind(s, "\"", i) + 1)

RECURSIVE ParseValue(_, _), ParseElements(_, _, _), ParseMembers(_, _, _)

\* after the items of an array: k is the position of the "," or "]"
ElementSeparator(s, k, items) ==
    IF k > Len(s) THEN ParseFail
    ELSE IF Ch(s, k) = "," THEN ParseElements(s, SkipWs(s, k + 1), items)
    ELSE IF Ch(s, k) = "]" THEN ParseOk(JList(items), k + 1)
    ELSE ParseFail

AfterElement(s, r, acc) ==
    IF ~r.ok THEN ParseFail ELSE ElementSeparator(s, SkipWs(s, r.pos), Append(acc, r.val))

\* value (, value)* ]   with i at the first character of a value
ParseElements(s, i, acc) == AfterElement(s, ParseValue(s, i), acc)

\* after the members of an object: k is the position of the "," or "}"
MemberSeparator(s, k, fields) ==
    IF k > Len(s) THEN ParseFail
    ELSE IF Ch(s, k) = "," THEN ParseMembers(s, SkipWs(s, k + 1), fields)
    ELSE IF Ch(s, k) = "}" THEN ParseOk(JObj(fields), k + 1)
    ELSE ParseFail

AfterMemberValue(s, name, r, acc) ==
    IF ~r.ok THEN ParseFail
    ELSE MemberSeparator(s, SkipWs(s, r.pos), (name :> r.val) @@ acc)

\* c is the position of the ":" after the key
MemberColon(s, name, c, acc) ==
    IF c > Len(s) \/ Ch(s, c) # ":" THEN ParseFail
    ELSE AfterMemberValue(s, name, ParseValue(s, SkipWs(s, c + 1)), acc)

AfterKey(s, key, acc) ==
    IF ~key.ok THEN ParseFail ELSE MemberColon(s, key.val.s, SkipWs(s, key.pos), acc)

\* "key" : value (, "key" : value)* }   with i at the first character of a key
ParseMembers(s, i, acc) ==
    IF i > Len(s) \/ Ch(s, i) # "\"" THEN ParseFail
    ELSE AfterKey(s, ParseString(s, i), acc)

\* after "{" or "[": j is the position of the first character that follows
ObjectFrom(s, j) ==
    IF j <= Len(s) /\ Ch(s, j) = "}" THEN ParseOk(JObj(NoFields), j + 1)
    ELSE ParseMembers(s, j, NoFields)
ArrayFrom(s, j) ==
    IF j <= Len(s) /\ Ch(s, j) = "]" THEN ParseOk(JList(<<>>), j + 1)
    ELSE ParseElements(s, j, <<>>)

Literal(s, i, word, v) ==
    IF StartsAt(s, i, word) THEN ParseOk(v, i + Len(word)) ELSE ParseFail

\* the value whose first character c is at i
ValueAt(s, i, c) ==
    CASE c = "{" -> ObjectFrom(s, SkipWs(s, i + 1))
      [] c = "[" -> ArrayFrom(s, SkipWs(s, i + 1))
      [] c = "\"" -> ParseString(s, i)
      [] c = "-" \/ c \in DOMAIN Digits -> ParseNumber(s, i)
      [] c = "n" -> Literal(s, i, "null", JNull)
      [] c = "t" -> Literal(s, i, "true", JBool(TRUE))
      [] c = "f" -> Literal(s, i, "false", JBool(FALSE))
      [] OTHER -> ParseFail

ParseValue(s, i) == IF i > Len(s) THEN ParseFail ELSE ValueAt(s, i, Ch(s, i))

NotParsed == [ok |-> FALSE, val |-> JNull]

\* nothing but whitespace may follow the value
WholeText(s, r) ==
    IF r.ok /\ SkipWs(s, r.pos) = Len(s) + 1 THEN [ok |-> TRUE, val |-> r.val]
    ELSE NotParsed
AnyPrefix(s, r) == IF r.ok THEN [ok |-> TRUE, val |-> r.val] ELSE NotParsed

\* json.loads(s): ok = FALSE is json.JSONDecodeError
JsonLoadsIgnoringTrailingText(s) == AnyPrefix(s, ParseValue(s, SkipWs(s, 1)))
JsonLoads(s) == WholeText(s, ParseValue(s, SkipWs(s, 1)))

\* dict.get(key, default)
DictGet(fields, key, default) ==
    IF key \in DOMAIN fields THEN fields[key] ELSE default

-----------------------------------------------------------------------------
(* The extraction step shared by the three generators.                     *)

FenceOpen == "~~~json"
FenceClose == "~~~"

\* text[json_start:text.find(FenceClose, json_start)].strip()
Between(text, json_start) ==
    PyStrip(PySlice(text, json_start, PyFind(text, FenceClose, json_start)))

\* the text handed to json.loads
FencedTextFromMarker(text) ==
    IF PyContains(text, FenceOpen)
    THEN Between(text, PyFind(text, FenceOpen, 0))
    ELSE text
FencedText(text) ==
    IF PyContains(text, FenceOpen)
    THEN Between(text, PyFind(text, FenceOpen, 0) + 7)
    ELSE text

-----------------------------------------------------------------------------
(* State.                                                                  *)

VARIABLES
    db,      \* the document store: collection name -> records in insertion order
    clock,   \* source of uuid4() and datetime.utcnow(): one tick per record built
    req,     \* the request being answered, with the replies of the upstream services
    resp     \* the response to req

vars == <<db, clock, req, resp>>

Collections == {"weather_data", "crop_suggestions", "ai_queries", "crop_records",
                "market_prices", "yield_predictions", "soil_analyses"}

NoWrites == [c \in Collections |-> <<>>]

Writes(c, records) == [NoWrites EXCEPT ![c] = records]

NoResponse == [ep |-> "none", status |-> 0, shape |-> "none", body |-> <<>>,
               path |-> "none", handed |-> "", parsed |-> NotParsed]

\* the outcome of a handler: HTTP status, the records returned, the records
\* inserted (in order), the ticks consumed, and the branch of the extraction
Outcome(status, shape, body, writes, ticks, path, handed, parsed) ==
    [status |-> status, shape |-> shape, body |-> body, writes |-> writes,
     ticks |-> ticks, path |-> path, handed |-> handed, parsed |-> parsed]

\* raise HTTPException(status_code=500, ...) out of a handler's outer except:
\* what was inserted before the exception stays inserted
ServerErrorRollingBack(writes, ticks, path, handed, parsed) ==
    Outcome(500, "error", <<>>, NoWrites, ticks, path, handed, parsed)
ServerError(writes, ticks, path, handed, parsed) ==
    Outcome(500, "error", <<>>, writes, ticks, path, handed, parsed)

-----------------------------------------------------------------------------
(* POST /weather                                                           *)

WeatherData(location, main, now) ==
    [id |-> now, location |-> location, temperature |-> main.temp,
     humidity |-> main.humidity, description |-> main.description,
     timestamp |-> now]

\* what the try block of get_weather raises for a reply w of the weather
\* service ("none": it returns):
\*   [kind |-> "error"]                                client.get raised
\*   [kind |-> "response", status_code, wellformed, main]
WeatherRaises(w) ==
    IF w.kind = "error" THEN "Exception"
    ELSE IF w.status_code # 200 THEN "HTTPException(400)"
    ELSE IF ~w.wellformed THEN "Exception"
    ELSE "none"

\* except Exception: whatever was raised, the HTTPException(400) included,
\* leaves get_weather as HTTPException(500)
WeatherErrorUnwrapped(raised) == IF raised = "HTTPException(400)" THEN 400 ELSE 500
WeatherErrorStatus(raised) == 500

\* the result: [status, weather, writes, ticks]
get_weather(location, w, now) ==
    IF WeatherRaises(w) # "none"
    THEN [status |-> WeatherErrorStatus(WeatherRaises(w)), weather |-> <<>>,
          writes |-> NoWrites, ticks |-> 0]
    ELSE [status |-> 200, weather |-> <<WeatherData(location, w.main, now + 1)>>,
          writes |-> Writes("weather_data", <<WeatherData(location, w.main, now + 1)>>),
          ticks |-> 1]

\* the endpoint's answer for the result of get_weather
WeatherAnswer(got) ==
    IF got.status # 200
    THEN Outcome(got.status, "error", <<>>, got.writes, got.ticks, "none", "", NotParsed)
    ELSE Outcome(200, "object", got.weather, got.writes, got.ticks, "none", "", NotParsed)

-----------------------------------------------------------------------------
(* POST /ai-assistant                                                      *)

AIQuery(question, answer, now) ==
    [id |-> now, question |-> question, answer |-> answer, timestamp |-> now]

\* m is the reply of the model service:
\*   [kind |-> "error"]            chat.completions.create raised
\*   [kind |-> "text", text, ...]  completion.choices[0].message.content
ask_ai_assistant(r, now) ==
    IF r.m.kind = "error" THEN ServerError(NoWrites, 0, "none", "", NotParsed)
    ELSE Outcome(200, "object", <<AIQuery(r.question, r.m.text, now + 1)>>,
                 Writes("ai_queries", <<AIQuery(r.question, r.m.text, now + 1)>>), 1,
                 "none", "", NotParsed)

-----------------------------------------------------------------------------
(* pydantic field validation, on the values the model's replies hold in a  *)
(* validated field: numbers, strings of letters, null, arrays and objects. *)

\* a str field
StrFieldOk(v) == v.t = "str"

\* a float field
FloatFieldOk(v) == v.t = "num"

\* a List[str] field
StrListFieldOk(v) ==
    v.t = "list" /\ \A i \in 1..Len(v.items) : StrFieldOk(v.items[i])

-----------------------------------------------------------------------------
(* POST /crop-suggestions                                                  *)

CropSuggestion(crop_name, reason, season, location, weather_condition, now) ==
    [id |-> now, crop_name |-> crop_name, reason |-> reason, season |-> season,
     location |-> location, weather_condition |-> weather_condition]

RECURSIVE Characters(_)
Characters(s) ==
    IF s = "" THEN <<>> ELSE <<JStr(Ch(s, 1))>> \o Characters(SubSeq(s, 2, Len(s)))

RECURSIVE Keys(_)
Keys(ks) ==
    IF ks = {} THEN <<>>
    ELSE LET k == CHOOSE k \in ks : TRUE IN <<JStr(k)>> \o Keys(ks \ {k})

\* for item in suggestions_data: a list gives its items, a dict its keys, a
\* str its characters; anything else is not iterable (TypeError)
Iterate(v) ==
    CASE v.t = "list" -> [ok |-> TRUE, items |-> v.items]
      [] v.t = "obj" -> [ok |-> TRUE, items |-> Keys(DOMAIN v.fields)]
      [] v.t = "str" -> [ok |-> TRUE, items |-> Characters(v.s)]
      [] OTHER -> [ok |-> FALSE, items |-> <<>>]

RECURSIVE SuggestionLoop(_, _, _, _, _)

SuggestionNext(items, location, condition, now, done, made) ==
    IF ~made.ok THEN [ok |-> FALSE, suggestions |-> done]
    ELSE SuggestionLoop(items, location, condition, now,
            Append(done, CropSuggestion(made.crop_name.s, made.reason.s, made.season.s,
                                        location, condition, now + Len(done) + 1)))

\* one pass of the for loop: the three fields of an item that is a dict
SuggestionItem(items, location, condition, now, done, item) ==
    IF item.t # "obj" THEN [ok |-> FALSE, suggestions |-> done]
    ELSE SuggestionNext(items, location, condition, now, done,
            [ok |-> /\ StrFieldOk(DictGet(item.fields, "crop_name", JStr("")))
                    /\ StrFieldOk(DictGet(item.fields, "reason", JStr("")))
                    /\ StrFieldOk(DictGet(item.fields, "season", JStr(""))),
             crop_name |-> DictGet(item.fields, "crop_name", JStr("")),
             reason |-> DictGet(item.fields, "reason", JStr("")),
             season |-> DictGet(item.fields, "season", JStr(""))])

\* the for loop of get_crop_suggestions: done holds the suggestions built
\* and inserted so far; ok = FALSE when an item raised (no .get on a
\* non-dict, or a field that fails validation)
SuggestionLoop(items, location, condition, now, done) ==
    IF Len(done) = Len(items) THEN [ok |-> TRUE, suggestions |-> done]
    ELSE SuggestionItem(items, location, condition, now, done, items[Len(done) + 1])

Merge(writes, extra) == [c \in Collections |-> writes[c] \o extra[c]]

\* the except json.JSONDecodeError branch returns the generic suggestion
\* without inserting it
SuggestionFallback(got, handed, parsed, generic) ==
    Outcome(200, "list", <<generic>>, got.writes, got.ticks + 1, "fallback", handed,
            parsed)

SuggestionsLooped(got, handed, parsed, loop) ==
    IF ~loop.ok
    THEN ServerError(Merge(got.writes, Writes("crop_suggestions", loop.suggestions)),
                     got.ticks + Len(loop.suggestions), "parsed", handed, parsed)
    ELSE Outcome(200, "list", loop.suggestions,
                 Merge(got.writes, Writes("crop_suggestions", loop.suggestions)),
                 got.ticks + Len(loop.suggestions), "parsed", handed, parsed)

SuggestionsIterated(r, now, got, handed, parsed, iter) ==
    IF ~iter.ok THEN ServerError(got.writes, got.ticks, "parsed", handed, parsed)
    ELSE SuggestionsLooped(got, handed, parsed,
            SuggestionLoop(iter.items, r.location, got.weather[1].description,
                           now + got.ticks, <<>>))

SuggestionsParsed(r, now, got, handed, parsed) ==
    IF ~parsed.ok
    THEN SuggestionFallback(got, handed, parsed,
            CropSuggestion("General crops suitable for current weather", handed,
                           "Current season", r.location, got.weather[1].description,
                           now + got.ticks + 1))
    ELSE SuggestionsIterated(r, now, got, handed, parsed, Iterate(parsed.val))

SuggestionsWithWeather(r, now, got) ==
    IF got.status # 200
    THEN ServerError(got.writes, got.ticks, "none", "", NotParsed)
    ELSE IF r.m.kind = "error"
    THEN ServerError(got.writes, got.ticks, "none", "", NotParsed)
    ELSE SuggestionsParsed(r, now, got, FencedText(r.m.text),
                           JsonLoads(FencedText(r.m.text)))

get_crop_suggestions(r, now) ==
    SuggestionsWithWeather(r, now, get_weather(r.location, r.w, now))

-----------------------------------------------------------------------------
(* round(x, 2).  x counts units of which `unit` make one hundredth; the     *)
(* result counts hundredths.  A decimal tie is decided by the binary value *)
(* of the float, which fixed point does not carry: tie_up is that outcome. *)

PyRound(x, unit, tie_up) ==
    IF 2 * (x % unit) < unit THEN x \div unit
    ELSE IF 2 * (x % unit) > unit THEN (x \div unit) + 1
    ELSE IF tie_up THEN (x \div unit) + 1 ELSE x \div unit

-----------------------------------------------------------------------------
(* GET /market-prices.  Prices are in cents, a fluctuation counts 1/100000 *)
(* (so -15000..15000 is the interval [-0.15, 0.15]), change_percent counts *)
(* hundredths of a percent.                                                *)

COMMODITY_PRICES ==
    << [commodity |-> "corn", base_price |-> 585, unit |-> "per bushel", trend |-> "stable"],
       [commodity |-> "wheat", base_price |-> 720, unit |-> "per bushel", trend |-> "rising"],
       [commodity |-> "soybeans", base_price |-> 1345, unit |-> "per bushel", trend |-> "falling"],
       [commodity |-> "rice", base_price |-> 1450, unit |-> "per cwt", trend |-> "stable"],
       [commodity |-> "cotton", base_price |-> 68, unit |-> "per lb", trend |-> "rising"],
       [commodity |-> "tomatoes", base_price |-> 125, unit |-> "per lb", trend |-> "stable"],
       [commodity |-> "potatoes", base_price |-> 55, unit |-> "per lb", trend |-> "falling"],
       [commodity |-> "onions", base_price |-> 45, unit |-> "per lb", trend |-> "stable"] >>

FluctuationLimit == 15000

\* base_price * (1 + fluctuation), in units of 1/100000 cent
CurrentPrice(base_price, fluctuation) == base_price * (100000 + fluctuation)

\* the two values handed to MarketPrice: round(current_price, 2) in cents
\* and round(fluctuation * 100, 2) in hundredths of a percent
SimulatePriceTruncating(base_price, draw) ==
    [current_price |-> CurrentPrice(base_price, draw.fluctuation) \div 100000,
     change_percent |-> draw.fluctuation \div 10]
SimulatePrice(base_price, draw) ==
    [current_price |-> PyRound(CurrentPrice(base_price, draw.fluctuation), 100000, draw.tie_price),
     change_percent |-> PyRound(draw.fluctuation, 10, draw.tie_percent)]

\* the fields of MarketPrice
MarketPriceFields == {"id", "commodity", "current_price_usd", "current_price_inr",
                      "currency_usd", "currency_inr", "unit", "change_percent",
                      "market_trend", "exchange_rate", "last_updated"}

\* exchange_rate = 83.5, in tenths
MarketPriceDefaults(now) ==
    [id |-> now, currency_usd |-> "USD", currency_inr |-> "INR", unit |-> "per bushel",
     exchange_rate |-> 835, last_updated |-> now]

\* MarketPrice(**kwargs): unknown keywords are ignored, a field without a
\* default that is not supplied is a ValidationError
MarketPrice(kwargs, now) ==
    IF {"commodity", "current_price_usd", "current_price_inr", "change_percent",
        "market_trend"} \subseteq DOMAIN kwargs
    THEN [ok |-> TRUE,
          record |-> [f \in (DOMAIN kwargs \cap MarketPriceFields) |-> kwargs[f]]
                        @@ MarketPriceDefaults(now)]
    ELSE [ok |-> FALSE, record |-> <<>>]

\* the keywords get_market_prices passes
MarketPriceKwargs(data, simulated) ==
    [commodity |-> data.commodity, current_price |-> simulated.current_price,
     unit |-> data.unit, change_percent |-> simulated.change_percent,
     market_trend |-> data.trend]

RECURSIVE PriceLoop(_, _, _)

PriceBuilt(draws, now, done, built) ==
    IF ~built.ok THEN [ok |-> FALSE, prices |-> done]
    ELSE PriceLoop(draws, now, Append(done, built.record))

PriceFor(draws, now, done, data) ==
    PriceBuilt(draws, now, done,
        MarketPrice(MarketPriceKwargs(data, SimulatePrice(data.base_price,
                                                          draws[Len(done) + 1])),
                    now + Len(done) + 1))

\* the for loop of get_market_prices: ok = FALSE when MarketPrice raised
PriceLoop(draws, now, done) ==
    IF Len(done) = Len(COMMODITY_PRICES) THEN [ok |-> TRUE, prices |-> done]
    ELSE PriceFor(draws, now, done, COMMODITY_PRICES[Len(done) + 1])

PricesLooped(loop) ==
    IF ~loop.ok
    THEN ServerError(Writes("market_prices", loop.prices), Len(loop.prices),
                     "none", "", NotParsed)
    ELSE Outcome(200, "list", loop.prices, Writes("market_prices", loop.prices),
                 Len(loop.prices), "none", "", NotParsed)

get_market_prices(r, now) == PricesLooped(PriceLoop(r.draws, now, <<>>))

-----------------------------------------------------------------------------
(* POST /yield-prediction.  A yield per acre counts tenths of a ton, a     *)
(* field size thousandths of an acre, predicted_yield hundredths of a ton. *)
(* planting_date only appears in the prompt and is left out.               *)

base_yields ==
    ("corn" :> 32) @@ ("wheat" :> 28) @@ ("soybeans" :> 21) @@ ("rice" :> 45) @@
    ("tomatoes" :> 150) @@ ("potatoes" :> 200) @@ ("cotton" :> 8)

DefaultYieldPerAcre == 25
DefaultConfidence == 75
FallbackConfidence == 70

YieldPrediction(crop_name, predicted_yield, confidence_score, factors, location, now) ==
    [id |-> now, crop_name |-> crop_name, predicted_yield |-> predicted_yield,
     confidence_score |-> confidence_score, factors |-> factors,
     location |-> location, prediction_date |-> now]

\* yield_per_acre * request.field_size with the value found in the reply:
\* a number multiplies, True and False count 1 and 0, anything else raises
\* TypeError
PerAcre(v) ==
    CASE v.t = "num" -> [ok |-> TRUE, tenths |-> 10 * v.n]
      [] v.t = "bool" -> [ok |-> TRUE, tenths |-> IF v.b THEN 10 ELSE 0]
      [] OTHER -> [ok |-> FALSE, tenths |-> 0]

\* the except json.JSONDecodeError branch of predict_yield
FallbackYieldPerAcreCaseSensitive(crop_name) ==
    DictGet(base_yields, crop_name, DefaultYieldPerAcre)
FallbackYieldPerAcre(crop_name) ==
    DictGet(base_yields, PyLower(crop_name), DefaultYieldPerAcre)

\* prediction_data.get('predicted_yield_per_acre', 2.5) * request.field_size
ReplyYield(fields, field_size) ==
    IF "predicted_yield_per_acre" \in DOMAIN fields
    THEN [ok |-> PerAcre(fields["predicted_yield_per_acre"]).ok,
          total_yield |-> PerAcre(fields["predicted_yield_per_acre"]).tenths * field_size]
    ELSE [ok |-> TRUE, total_yield |-> DefaultYieldPerAcre * field_size]

PredictionSaved(got, path, handed, parsed, prediction) ==
    Outcome(200, "object", <<prediction>>,
            Merge(got.writes, Writes("yield_predictions", <<prediction>>)),
            got.ticks + 1, path, handed, parsed)

PredictionFromReply(r, now, got, handed, parsed, fields, yield, confidence) ==
    IF ~yield.ok \/ ~FloatFieldOk(confidence)
    THEN ServerError(got.writes, got.ticks, "parsed", handed, parsed)
    ELSE PredictionSaved(got, "parsed", handed, parsed,
            YieldPrediction(r.crop_name, PyRound(yield.total_yield, 100, r.tie_up),
                confidence.n,
                [weather_impact |-> <<got.weather[1].temperature, got.weather[1].humidity>>,
                 field_size |-> r.field_size,
                 key_factors |-> DictGet(fields, "key_factors", JList(<<>>)),
                 location_suitability |-> r.location],
                r.location, now + got.ticks + 1))

PredictionFallback(r, now, got, handed, parsed) ==
    PredictionSaved(got, "fallback", handed, parsed,
        YieldPrediction(r.crop_name,
            PyRound(FallbackYieldPerAcre(r.crop_name) * r.field_size, 100, r.tie_up),
            FallbackConfidence,
            [weather_impact |-> <<got.weather[1].temperature>>,
             field_size |-> r.field_size,
             ai_analysis |-> PySlice(handed, 0, 200)],
            r.location, now + got.ticks + 1))

PredictionParsed(r, now, got, handed, parsed) ==
    IF ~parsed.ok THEN PredictionFallback(r, now, got, handed, parsed)
    ELSE IF parsed.val.t # "obj"
    THEN ServerError(got.writes, got.ticks, "parsed", handed, parsed)
    ELSE PredictionFromReply(r, now, got, handed, parsed, parsed.val.fields,
            ReplyYield(parsed.val.fields, r.field_size),
            DictGet(parsed.val.fields, "confidence_score", JNum(DefaultConfidence)))

PredictionWithWeather(r, now, got) ==
    IF got.status # 200
    THEN ServerError(got.writes, got.ticks, "none", "", NotParsed)
    ELSE IF r.m.kind = "error"
    THEN ServerError(got.writes, got.ticks, "none", "", NotParsed)
    ELSE PredictionParsed(r, now, got, FencedText(r.m.text),
                          JsonLoads(FencedText(r.m.text)))

predict_yield(r, now) ==
    PredictionWithWeather(r, now, get_weather(r.location, r.w, now))

-----------------------------------------------------------------------------
(* POST /soil-analysis.  The five measurements count tenths (pH 6.0 is 60, *)
(* 20 ppm is 200, 2 % is 20); a health score counts points.                *)

BaseScore == 50

SoilAnalysis(r, health_score, recommendations, now) ==
    [id |-> now, ph_level |-> r.ph_level, nitrogen |-> r.nitrogen,
     phosphorus |-> r.phosphorus, potassium |-> r.potassium,
     organic_matter |-> r.organic_matter, soil_type |-> r.soil_type,
     health_score |-> health_score, recommendations |-> recommendations,
     location |-> r.location, analysis_date |-> now]

\* one rule of the fallback: the advisory string it appends and its delta
Rule(text, delta) == [recommendations |-> <<text>>, delta |-> delta]
NoRule == [recommendations |-> <<>>, delta |-> 0]

PhRuleInclusive(ph_level) ==
    IF ph_level <= 60
    THEN Rule("Soil is acidic. Add lime to raise pH to 6.0-7.0 range.", -15)
    ELSE IF ph_level >= 75
    THEN Rule("Soil is alkaline. Consider sulfur amendment to lower pH.", -10)
    ELSE Rule("pH level is optimal for most crops.", 15)
PhRule(ph_level) ==
    IF ph_level < 60
    THEN Rule("Soil is acidic. Add lime to raise pH to 6.0-7.0 range.", -15)
    ELSE IF ph_level > 75
    THEN Rule("Soil is alkaline. Consider sulfur amendment to lower pH.", -10)
    ELSE Rule("pH level is optimal for most crops.", 15)

NitrogenRule(nitrogen) ==
    IF nitrogen < 200
    THEN Rule("Nitrogen deficiency detected. Apply nitrogen-rich fertilizer or compost.", -10)
    ELSE IF nitrogen > 500
    THEN Rule("High nitrogen levels. Monitor to prevent nutrient runoff.", 10)
    ELSE NoRule

PhosphorusRule(phosphorus) ==
    IF phosphorus < 150
    THEN Rule("Phosphorus is low. Apply bone meal or phosphate fertilizer.", -8)
    ELSE IF phosphorus > 500
    THEN Rule("Phosphorus levels are excellent.", 8)
    ELSE NoRule

PotassiumRule(potassium) ==
    IF potassium < 1000
    THEN Rule("Potassium deficiency. Apply potash or wood ash.", -12)
    ELSE IF potassium > 2000
    THEN Rule("Good potassium levels for strong plant growth.", 12)
    ELSE NoRule

OrganicMatterRule(organic_matter) ==
    IF organic_matter < 20
    THEN Rule("Low organic matter. Add compost, manure, or cover crops.", -15)
    ELSE IF organic_matter > 40
    THEN Rule("Excellent organic matter content supports soil health.", 20)
    ELSE NoRule

\* the deltas added to the base score, then max(0, min(100, health_score))
Score(ph, n, p, k, om) ==
    [health_score |-> Max2(0, Min2(100, BaseScore + ph.delta + n.delta + p.delta
                                            + k.delta + om.delta)),
     recommendations |-> ph.recommendations \o n.recommendations \o p.recommendations
                            \o k.recommendations \o om.recommendations]

\* the except json.JSONDecodeError branch of analyze_soil
SoilFallback(r) ==
    Score(PhRule(r.ph_level), NitrogenRule(r.nitrogen), PhosphorusRule(r.phosphorus),
          PotassiumRule(r.potassium), OrganicMatterRule(r.organic_matter))

AnalysisSaved(path, handed, parsed, analysis) ==
    Outcome(200, "object", <<analysis>>, Writes("soil_analyses", <<analysis>>), 1,
            path, handed, parsed)

AnalysisFromReply(r, now, handed, parsed, health_score, recommendations) ==
    IF ~FloatFieldOk(health_score) \/ ~StrListFieldOk(recommendations)
    THEN ServerError(NoWrites, 0, "parsed", handed, parsed)
    ELSE AnalysisSaved("parsed", handed, parsed,
            SoilAnalysis(r, health_score.n,
                [i \in 1..Len(recommendations.items) |-> recommendations.items[i].s],
                now + 1))

AnalysisParsed(r, now, handed, parsed) ==
    IF ~parsed.ok
    THEN AnalysisSaved("fallback", handed, parsed,
            SoilAnalysis(r, SoilFallback(r).health_score, SoilFallback(r).recommendations,
                         now + 1))
    ELSE IF parsed.val.t # "obj"
    THEN ServerError(NoWrites, 0, "parsed", handed, parsed)
    ELSE AnalysisFromReply(r, now, handed, parsed,
            DictGet(parsed.val.fields, "health_score", JNum(0)),
            DictGet(parsed.val.fields, "detailed_recommendations", JList(<<>>)))

analyze_soil(r, now) ==
    IF r.m.kind = "error" THEN ServerError(NoWrites, 0, "none", "", NotParsed)
    ELSE AnalysisParsed(r, now, FencedText(r.m.text), JsonLoads(FencedText(r.m.text)))

-----------------------------------------------------------------------------
(* POST /crops, GET /crops and the three histories.  A date is a number.   *)
(* A cursor is the sequence of the documents of a collection, in the order *)
(* they were inserted.                                                     *)

CropRecord(r, now) ==
    [id |-> now, crop_name |-> r.crop_name, planting_date |-> r.planting_date,
     expected_harvest |-> r.expected_harvest, location |-> r.location,
     notes |-> r.notes, status |-> "planted"]

add_crop_record(r, now) ==
    Outcome(200, "object", <<CropRecord(r, now + 1)>>,
            Writes("crop_records", <<CropRecord(r, now + 1)>>), 1, "none", "", NotParsed)

\* cursor.to_list(length), cursor.limit(length): the first documents of the
\* cursor, at most length of them
ToList(cursor, length) == SubSeq(cursor, 1, Min2(Len(cursor), length))

CropRecordsLimit == 1000

\* the position of the document that sort(key, -1) puts first: the largest
\* value of key, and the earliest inserted of those that hold it (the store
\* leaves the order of equal keys open; the clock gives no two records the
\* same date)
Latest(cursor, key) ==
    CHOOSE i \in 1..Len(cursor) :
        /\ \A j \in 1..Len(cursor) : cursor[j][key] <= cursor[i][key]
        /\ \A j \in 1..(i - 1) : cursor[j][key] < cursor[i][key]

\* cursor.sort(key, -1)
RECURSIVE SortDescending(_, _)
SortDescending(cursor, key) ==
    IF cursor = <<>> THEN <<>>
    ELSE <<cursor[Latest(cursor, key)]>>
            \o SortDescending(SubSeq(cursor, 1, Latest(cursor, key) - 1)
                                  \o SubSeq(cursor, Latest(cursor, key) + 1, Len(cursor)),
                              key)

RecentQueriesLimit == 10
HistoryLimit == 20

\* find().sort(key, -1).limit(n).to_list(n)
FindUnsorted(stored, key, n) == ToList(ToList(stored, n), n)
Find(stored, key, n) == ToList(ToList(SortDescending(stored, key), n), n)

-----------------------------------------------------------------------------
(* The replies of the model service.  A reply text is assembled from       *)
(* parts: prose before, an optional fence-open marker, a payload between   *)
(* whitespace, an optional fence-close marker, prose after.  The payload   *)
(* is the rendering of a JSON document or a text that is not JSON.         *)

ANull == [k |-> "null"]
ANum(n) == [k |-> "num", n |-> n]
AStr(s) == [k |-> "str", s |-> s]
AList(items) == [k |-> "list", items |-> items]
AObj(members) == [k |-> "obj", members |-> members]

RECURSIVE RenderNat(_)
RenderNat(n) ==
    IF n < 10 THEN Ch("0123456789", n + 1)
    ELSE RenderNat(n \div 10) \o Ch("0123456789", (n % 10) + 1)

\* the JSON text of a document (json.dumps)
RECURSIVE Render(_), RenderItems(_), RenderMembers(_)
Render(a) ==
    CASE a.k = "null" -> "null"
      [] a.k = "num" -> IF a.n < 0 THEN "-" \o RenderNat(0 - a.n) ELSE RenderNat(a.n)
      [] a.k = "str" -> "\"" \o a.s \o "\""
      [] a.k = "list" -> "[" \o RenderItems(a.items) \o "]"
      [] a.k = "obj" -> "{" \o RenderMembers(a.members) \o "}"
RenderItems(items) ==
    IF items = <<>> THEN ""
    ELSE Render(Head(items)) \o (IF Len(items) > 1 THEN ", " ELSE "")
         \o RenderItems(Tail(items))
RenderMembers(members) ==
    IF members = <<>> THEN ""
    ELSE "\"" \o Head(members)[1] \o "\": " \o Render(Head(members)[2])
         \o (IF Len(members) > 1 THEN ", " ELSE "") \o RenderMembers(Tail(members))

\* the value a document stands for
RECURSIVE Denote(_), DenoteMembers(_)
Denote(a) ==
    CASE a.k = "null" -> JNull
      [] a.k = "num" -> JNum(a.n)
      [] a.k = "str" -> JStr(a.s)
      [] a.k = "list" -> JList([i \in 1..Len(a.items) |-> Denote(a.items[i])])
      [] a.k = "obj" -> JObj(DenoteMembers(a.members))
DenoteMembers(members) ==
    IF members = <<>> THEN NoFields
    ELSE LET last == members[Len(members)]
         IN  (last[1] :> Denote(last[2])) @@ DenoteMembers(SubSeq(members, 1, Len(members) - 1))

SoilReplyHigh == AObj(<< <<"health_score", ANum(150)>> >>)
YieldReply ==
    AObj(<< <<"predicted_yield_per_acre", ANum(3)>>, <<"confidence_score", ANum(90)>>,
            <<"key_factors", AList(<<AStr("rain")>>)>> >>)
CropReply ==
    AList(<< AObj(<< <<"crop_name", AStr("rice")>>, <<"reason", AStr("wet")>>,
                     <<"season", AStr("kharif")>> >>),
             AObj(<< <<"crop_name", AStr("corn")>> >>) >>)
CropReplyMixed == AList(<< AObj(<< <<"crop_name", AStr("rice")>> >>), ANum(7) >>)

Documents ==
    {AObj(<< <<"health_score", ANum(80)>>,
             <<"detailed_recommendations", AList(<<AStr("add lime")>>)>> >>),
     SoilReplyHigh, YieldReply, AObj(<< <<"confidence_score", ANum(-5)>> >>),
     CropReply, CropReplyMixed, AObj(<<>>), AList(<<>>), ANum(7), ANull, AStr("rice")}

\* the renderings of the documents, and texts that are not JSON and of
\* which no prefix is
Payloads ==
    {[kind |-> "json", doc |-> d] : d \in Documents}
        \cup {[kind |-> "prose", raw |-> t] :
                 t \in {"Plant rice.", "{", "[1,", "{\"crop_name\"", ""}}

Assemble(parts) ==
    parts.pre \o (IF parts.open THEN FenceOpen ELSE "") \o parts.ws
        \o (IF parts.payload.kind = "json" THEN Render(parts.payload.doc)
            ELSE parts.payload.raw) \o parts.ws
        \o (IF parts.close THEN FenceClose ELSE "") \o parts.post

Parts(pre, open, ws, payload, close, post) ==
    [pre |-> pre, open |-> open, ws |-> ws, payload |-> payload, close |-> close,
     post |-> post]

Plain(payload) == Parts("", FALSE, "", payload, FALSE, "")
Fenced(payload) == Parts("Sure: ", TRUE, "\n", payload, TRUE, " ok")

AllParts ==
    {Parts(pre, open, ws, payload, close, post) :
        pre \in {"", "Sure: "}, open \in BOOLEAN, ws \in {"", "\n"},
        payload \in Payloads, close \in BOOLEAN, post \in {"", " ok"}}

FewParts ==
    {Plain([kind |-> "prose", raw |-> "Plant rice."]),
     Fenced([kind |-> "json", doc |-> CropReply]),
     Plain([kind |-> "json", doc |-> CropReplyMixed]),
     Plain([kind |-> "json", doc |-> SoilReplyHigh]),
     Fenced([kind |-> "json", doc |-> YieldReply])}

ModelDown == [kind |-> "error"]
ModelText(parts) == [kind |-> "text", text |-> Assemble(parts), parts |-> parts]

ModelReplies(partsSet) == {ModelDown} \cup {ModelText(p) : p \in partsSet}

-----------------------------------------------------------------------------
(* The replies of the weather service.                                     *)

WeatherOk ==
    [kind |-> "response", status_code |-> 200, wellformed |-> TRUE,
     main |-> [temp |-> 31, humidity |-> 60, description |-> "haze"]]
WeatherNotFound ==
    [kind |-> "response", status_code |-> 404, wellformed |-> TRUE,
     main |-> [temp |-> 0, humidity |-> 0, description |-> ""]]

\* a city, an unknown city, a 200 without the expected keys, no connection
WeatherReplies ==
    {WeatherOk, WeatherNotFound,
     [kind |-> "response", status_code |-> 200, wellformed |-> FALSE,
      main |-> [temp |-> 0, humidity |-> 0, description |-> ""]],
     [kind |-> "error"]}

\* the replies a handler that first fetches the weather can see: the model
\* is called only after the weather arrived
Upstream(partsSet) ==
    {[w |-> w, m |-> [kind |-> "uncalled"]] : w \in WeatherReplies \ {WeatherOk}}
        \cup {[w |-> WeatherOk, m |-> m] : m \in ModelReplies(partsSet)}

-----------------------------------------------------------------------------
(* Requests.                                                               *)

\* the server stops accepting requests once it has built this many records
MaxRecords == 2

CropSuggestionRequests(partsSet) ==
    {[ep |-> "crop-suggestions", location |-> "Pune", w |-> u.w, m |-> u.m] :
        u \in Upstream(partsSet)}

YieldRequests(crops, sizes, ties, upstream) ==
    {[ep |-> "yield-prediction", crop_name |-> c, location |-> "Pune",
      field_size |-> f, tie_up |-> t, w |-> u.w, m |-> u.m] :
        c \in crops, f \in sizes, t \in ties, u \in upstream}

SoilRequests(phs, nitrogens, phosphoruses, potassiums, organics, replies) ==
    {[ep |-> "soil-analysis", ph_level |-> ph, nitrogen |-> n, phosphorus |-> p,
      potassium |-> k, organic_matter |-> om, soil_type |-> "Loamy",
      location |-> "Pune", m |-> m] :
        ph \in phs, n \in nitrogens, p \in phosphoruses, k \in potassiums,
        om \in organics, m \in replies}

Draw(fluctuation, tie_price, tie_percent) ==
    [fluctuation |-> fluctuation, tie_price |-> tie_price, tie_percent |-> tie_percent]

\* one run of the simulation of get_market_prices, for one commodity;
\* random.uniform(-0.15, 0.15) is sampled
SimulationRequests ==
    {[ep |-> "price-simulation", index |-> i, draw |-> Draw(f, tp, tc)] :
        i \in 1..Len(COMMODITY_PRICES),
        f \in {f \in (0 - FluctuationLimit)..FluctuationLimit :
                  \/ f % 250 = 0
                  \/ f < 60 - FluctuationLimit
                  \/ f > FluctuationLimit - 60
                  \/ (f > -30 /\ f < 30)},
        tp \in BOOLEAN, tc \in BOOLEAN}

-----------------------------------------------------------------------------
(* Actions: one per endpoint.                                              *)

\* insert_one for each of the records, in order: the collection keeps what
\* it holds and gains the records at its end
InsertAllReplacing(stored, records) == IF records = <<>> THEN stored ELSE records
InsertAll(stored, records) == stored \o records

Respond(r, out) ==
    /\ req' = r
    /\ resp' = [ep |-> r.ep, status |-> out.status, shape |-> out.shape,
                body |-> out.body, path |-> out.path, handed |-> out.handed,
                parsed |-> out.parsed]
    /\ db' = [c \in Collections |-> InsertAll(db[c], out.writes[c])]
    /\ clock' = clock + out.ticks

PostCropSuggestions(r) ==
    r.ep = "crop-suggestions" /\ Respond(r, get_crop_suggestions(r, clock))
PostYieldPrediction(r) == r.ep = "yield-prediction" /\ Respond(r, predict_yield(r, clock))
PostSoilAnalysis(r) == r.ep = "soil-analysis" /\ Respond(r, analyze_soil(r, clock))

\* GET /crops: db.crop_records.find().to_list(1000), nothing is written.
\* The GET endpoints take no input; repeated tells whether the request
\* answered just before was a GET /crops as well.
GetCropRecordsSaving ==
    Respond([ep |-> "get-crops", repeated |-> resp.ep = "get-crops"],
            Outcome(200, "list", ToList(db.crop_records, CropRecordsLimit),
                    Writes("crop_records", ToList(db.crop_records, 1)), 0, "none", "",
                    NotParsed))
get_crop_records ==
    Respond([ep |-> "get-crops", repeated |-> resp.ep = "get-crops"],
            Outcome(200, "list", ToList(db.crop_records, CropRecordsLimit), NoWrites, 0,
                    "none", "", NotParsed))

\* GET /recent-queries
get_recent_queries ==
    Respond([ep |-> "recent-queries"],
            Outcome(200, "list", Find(db.ai_queries, "timestamp", RecentQueriesLimit),
                    NoWrites, 0, "none", "", NotParsed))

\* GET /yield-history
get_yield_history ==
    Respond([ep |-> "yield-history"],
            Outcome(200, "list", Find(db.yield_predictions, "prediction_date", HistoryLimit),
                    NoWrites, 0, "none", "", NotParsed))

\* GET /soil-history
get_soil_history ==
    Respond([ep |-> "soil-history"],
            Outcome(200, "list", Find(db.soil_analyses, "analysis_date", HistoryLimit),
                    NoWrites, 0, "none", "", NotParsed))

-----------------------------------------------------------------------------
(* Spec: the server answering requests one after the other.                *)

Init ==
    /\ db = [c \in Collections |-> <<>>]
    /\ clock = 0
    /\ req = [ep |-> "none"]
    /\ resp = NoResponse

Accepting == clock < MaxRecords

Weather ==
    Accepting /\ \E w \in WeatherReplies :
                    Respond([ep |-> "weather", location |-> "Pune", w |-> w],
                            WeatherAnswer(get_weather("Pune", w, clock)))
CropSuggestions == Accepting /\ \E r \in CropSuggestionRequests(FewParts) : PostCropSuggestions(r)
Assistant ==
    Accepting /\ \E r \in {[ep |-> "ai-assistant", question |-> "When to sow?", m |-> m] :
                              m \in ModelReplies(FewParts)} :
                    Respond(r, ask_ai_assistant(r, clock))
MarketPrices ==
    Accepting /\ \E r \in {[ep |-> "market-prices",
                             draws |-> [i \in 1..Len(COMMODITY_PRICES) |->
                                          Draw(f, FALSE, FALSE)]] :
                              f \in {0 - FluctuationLimit, 4321}} :
                    Respond(r, get_market_prices(r, clock))
YieldPredictions ==
    Accepting /\ \E r \in YieldRequests({"Corn"}, {10000}, {FALSE}, Upstream(FewParts)) :
                    PostYieldPrediction(r)
SoilAnalyses ==
    Accepting /\ \E r \in SoilRequests({65}, {250}, {200}, {1500}, {30}, ModelReplies(FewParts)) :
                    PostSoilAnalysis(r)

Crops ==
    Accepting /\ \E r \in {[ep |-> "crops", crop_name |-> c, planting_date |-> 1,
                              expected_harvest |-> 2, location |-> "Pune", notes |-> ""] :
                              c \in {"rice", "corn"}} :
                    Respond(r, add_crop_record(r, clock))

Next ==
    \/ Crops
    \/ get_crop_records
    \/ get_recent_queries
    \/ get_yield_history
    \/ get_soil_history
    \/ Weather
    \/ CropSuggestions
    \/ Assistant
    \/ MarketPrices
    \/ YieldPredictions
    \/ SoilAnalyses

Spec == Init /\ [][Next]_vars

-----------------------------------------------------------------------------
(* SpecOnce: one request drawn from the wide sets, answered once by a      *)
(* server with an empty store.                                             *)

NotJson == {ModelText(Plain([kind |-> "prose", raw |-> "Plant rice."]))}

SoilLevels == [ph_level |-> {59, 60, 65, 75, 76},
               nitrogen |-> {199, 200, 250, 500, 501},
               phosphorus |-> {149, 150, 200, 500, 501},
               potassium |-> {999, 1000, 1500, 2000, 2001},
               organic_matter |-> {19, 20, 30, 40, 41}]

CropNames == {"corn", "Corn", "WHEAT", "wheat", "soybeans", "rice", "tomatoes",
              "potatoes", "cotton", "barley", ""}

OnceRequests ==
    CropSuggestionRequests(AllParts)
        \cup YieldRequests({"corn"}, {10000}, {FALSE}, Upstream(AllParts))
        \cup SoilRequests({65}, {250}, {200}, {1500}, {30}, ModelReplies(AllParts))
        \cup SoilRequests(SoilLevels.ph_level, SoilLevels.nitrogen, SoilLevels.phosphorus,
                          SoilLevels.potassium, SoilLevels.organic_matter, NotJson)
        \cup YieldRequests(CropNames, {0, 10, 125, 333, 1500, 10000}, BOOLEAN,
                           {[w |-> WeatherOk, m |-> m] : m \in NotJson})
        \cup SimulationRequests

InitOnce ==
    /\ db = [c \in Collections |-> <<>>]
    /\ clock = 0
    /\ req \in OnceRequests
    /\ resp = NoResponse

Waiting == resp.ep = "none"

CropSuggestionsOnce == Waiting /\ PostCropSuggestions(req)
YieldPredictionOnce == Waiting /\ PostYieldPrediction(req)
SoilAnalysisOnce == Waiting /\ PostSoilAnalysis(req)
\* the simulation of get_market_prices applied to one commodity
SimulateOnce ==
    /\ Waiting
    /\ req.ep = "price-simulation"
    /\ resp' = [NoResponse EXCEPT !.ep = req.ep,
                   !.body = <<SimulatePrice(COMMODITY_PRICES[req.index].base_price,
                                            req.draw)>>]
    /\ UNCHANGED <<db, clock, req>>

NextOnce ==
    \/ CropSuggestionsOnce
    \/ YieldPredictionOnce
    \/ SoilAnalysisOnce
    \/ SimulateOnce

SpecOnce == InitOnce /\ [][NextOnce]_vars

-----------------------------------------------------------------------------
(* SpecHistory: the server filling one collection past the limits of the   *)
(* history endpoints.  A history reads one collection, so a run keeps the  *)
(* other two empty; each request has one reply that stores a record.       *)

\* a collection stops growing at this many records
MaxStored == 22

Filling(c) ==
    /\ Len(db[c]) < MaxStored
    /\ \A d \in Collections \ {c, "weather_data"} : db[d] = <<>>

AssistantHistory ==
    Filling("ai_queries")
        /\ \E r \in {[ep |-> "ai-assistant", question |-> "When to sow?", m |-> m] :
                        m \in {ModelDown} \cup NotJson} :
              Respond(r, ask_ai_assistant(r, clock))
YieldPredictionHistory ==
    Filling("yield_predictions")
        /\ \E r \in YieldRequests({"corn"}, {10000}, {FALSE},
                                   {[w |-> WeatherOk, m |-> m] : m \in NotJson}) :
              PostYieldPrediction(r)
SoilAnalysisHistory ==
    Filling("soil_analyses")
        /\ \E r \in SoilRequests({65}, {250}, {200}, {1500}, {30},
                                  {ModelDown} \cup NotJson) :
              PostSoilAnalysis(r)

NextHistory ==
    \/ AssistantHistory
    \/ YieldPredictionHistory
    \/ SoilAnalysisHistory
    \/ get_recent_queries
    \/ get_yield_history
    \/ get_soil_history

SpecHistory == Init /\ [][NextHistory]_vars

-----------------------------------------------------------------------------
(* Properties.                                                             *)

Abs(n) == IF n < 0 THEN 0 - n ELSE n

Generators == {"crop-suggestions", "yield-prediction", "soil-analysis", "ai-assistant"}

Extractors == {"crop-suggestions", "yield-prediction", "soil-analysis"}

CollectionOf(ep) ==
    CASE ep = "crop-suggestions" -> "crop_suggestions"
      [] ep = "yield-prediction" -> "yield_predictions"
      [] ep = "soil-analysis" -> "soil_analyses"
      [] ep = "ai-assistant" -> "ai_queries"

Stored(c, record) == \E i \in 1..Len(db[c]) : db[c][i] = record

\* C1: every record an advisory generator returns with a success response
\* is in the generator's collection of the document store, on the parsed
\* path and on the fallback path alike.
C1_ReturnedRecordsAreStored ==
    (resp.ep \in Generators /\ resp.status = 200)
        => \A i \in 1..Len(resp.body) : Stored(CollectionOf(resp.ep), resp.body[i])

InRange(score) == 0 <= score /\ score <= 100

\* C2: the health_score of every returned or stored SoilAnalysis and the
\* confidence_score of every returned or stored YieldPrediction lie in
\* [0, 100], whatever the model replied.
C2_ScoresWithinBounds ==
    /\ (resp.ep = "soil-analysis" /\ resp.status = 200)
            => InRange(resp.body[1].health_score)
    /\ (resp.ep = "yield-prediction" /\ resp.status = 200)
            => InRange(resp.body[1].confidence_score)
    /\ \A i \in 1..Len(db.soil_analyses) : InRange(db.soil_analyses[i].health_score)
    /\ \A i \in 1..Len(db.yield_predictions) :
            InRange(db.yield_predictions[i].confidence_score)

\* the model was called and answered with a text
Replied == resp.ep \in Extractors /\ req.m.kind = "text"

\* a reply assembled so that it is not JSON: the payload is prose, or there
\* is no fence-open marker and something surrounds the payload
NotParseable(parts) ==
    \/ parts.payload.kind = "prose"
    \/ ~parts.open /\ (parts.pre # "" \/ parts.close \/ parts.post # "")

C4_ExtractionYieldsEmbeddedValue ==
    Replied =>
        LET parts == req.m.parts
        IN  /\ (parts.open /\ parts.close /\ parts.payload.kind = "json")
                => /\ resp.handed = Render(parts.payload.doc)
                   /\ resp.parsed = [ok |-> TRUE, val |-> Denote(parts.payload.doc)]
            /\ ~parts.open
                => /\ resp.handed = req.m.text
                   /\ resp.parsed = IF NotParseable(parts) THEN NotParsed
                                    ELSE [ok |-> TRUE, val |-> Denote(parts.payload.doc)]

C4_Witness ==
    /\ Replied /\ resp.ep = "crop-suggestions"
    /\ req.m.parts = Fenced([kind |-> "json", doc |-> CropReply])
    /\ resp.parsed = [ok |-> TRUE, val |-> Denote(CropReply)]

\* the delta of one measurement in the rule table
Band(level, low, high, below, between, above) ==
    IF level < low THEN below ELSE IF level > high THEN above ELSE between

RuleTableScore(r) ==
    LET sum == 50 + Band(r.ph_level, 60, 75, -15, 15, -10)
                  + Band(r.nitrogen, 200, 500, -10, 0, 10)
                  + Band(r.phosphorus, 150, 500, -8, 0, 8)
                  + Band(r.potassium, 1000, 2000, -12, 0, 12)
                  + Band(r.organic_matter, 20, 40, -15, 0, 20)
    IN  IF sum < 0 THEN 0 ELSE IF sum > 100 THEN 100 ELSE sum

SoilTestRequest(r) ==
    /\ r.ph_level = 65 /\ r.nitrogen = 250 /\ r.phosphorus = 200
    /\ r.potassium = 1500 /\ r.organic_matter = 30

\* C5: on the fallback path of soil-analysis the health score is the rule
\* table's sum clamped to [0, 100]; pH 6.5, N 25, P 20, K 150, organic
\* matter 3.0 scores 65.
C5_FallbackScoreFollowsRuleTable ==
    (resp.ep = "soil-analysis" /\ resp.path = "fallback")
        => /\ resp.body[1].health_score = RuleTableScore(req)
           /\ SoilTestRequest(req) => resp.body[1].health_score = 65

C5_Witness ==
    /\ resp.ep = "soil-analysis" /\ resp.path = "fallback"
    /\ req.ph_level = 60 /\ req.nitrogen = 501 /\ req.phosphorus = 501
    /\ req.potassium = 2001 /\ req.organic_matter = 41
    /\ resp.body[1].health_score = 100

\* the base yield of the documented table, in tenths, by lower-cased crop name
TableYield ==
    [c \in CropNames |->
        CASE c \in {"corn", "Corn"} -> 32
          [] c \in {"wheat", "WHEAT"} -> 28
          [] c = "soybeans" -> 21
          [] c = "rice" -> 45
          [] c = "tomatoes" -> 150
          [] c = "potatoes" -> 200
          [] c = "cotton" -> 8
          [] OTHER -> 25]

YieldFellBack == resp.ep = "yield-prediction" /\ resp.path = "fallback"

\* C6 as stated: on the fallback path of yield-prediction the predicted
\* yield equals base yield times field size and the confidence is 70.
C6_FallbackYieldIsExactProduct ==
    YieldFellBack
        => /\ 100 * resp.body[1].predicted_yield = TableYield[req.crop_name] * req.field_size
           /\ resp.body[1].confidence_score = 70

\* C6 amended: on the fallback path of yield-prediction the predicted yield
\* is base yield times field size rounded to two decimals (within half a
\* hundredth of the product), the confidence is 70, and corn on 10 acres
\* yields 32.0.
C6_FallbackYieldIsRoundedProduct ==
    YieldFellBack
        => /\ 2 * Abs(100 * resp.body[1].predicted_yield
                        - TableYield[req.crop_name] * req.field_size) <= 100
           /\ resp.body[1].confidence_score = 70
           /\ (req.crop_name = "corn" /\ req.field_size = 10000)
                => resp.body[1].predicted_yield = 3200

C6_Witness ==
    /\ YieldFellBack
    /\ req.crop_name = "Corn" /\ req.field_size = 333
    /\ resp.body[1].predicted_yield = 107

MarketPriceClientFields ==
    {"commodity", "current_price_usd", "current_price_inr", "currency_usd",
     "currency_inr", "exchange_rate", "market_trend", "unit"}

\* C7: GET market-prices answers with a success response and a non-empty
\* list of one MarketPrice per commodity of the table, each with the
\* dual-currency fields, USD, INR and the exchange rate 83.5.
C7_MarketPricesListed ==
    resp.ep = "market-prices"
        => /\ resp.status = 200
           /\ Len(resp.body) = Len(COMMODITY_PRICES)
           /\ Len(resp.body) > 0
           /\ \A i \in 1..Len(resp.body) :
                /\ MarketPriceClientFields \subseteq DOMAIN resp.body[i]
                /\ resp.body[i].commodity = COMMODITY_PRICES[i].commodity
                /\ resp.body[i].currency_usd = "USD"
                /\ resp.body[i].currency_inr = "INR"
                /\ resp.body[i].exchange_rate = 835

Simulated == resp.ep = "price-simulation"

BasePrice == COMMODITY_PRICES[req.index].base_price

\* C8 as stated: the price the simulator produces lies within
\* base_price x [0.85, 1.15] and change_percent equals
\* (current_price / base_price - 1) x 100 to within half a hundredth.
C8_PriceWithinBand ==
    Simulated
        => /\ 85 * BasePrice <= 100 * resp.body[1].current_price
           /\ 100 * resp.body[1].current_price <= 115 * BasePrice
           /\ 2 * Abs(resp.body[1].change_percent * BasePrice
                        - 10000 * (resp.body[1].current_price - BasePrice)) <= BasePrice

\* C8 amended: the price the simulator produces is base_price x (1 +
\* fluctuation) rounded to the cent, so it lies within half a cent of
\* base_price x [0.85, 1.15], and change_percent equals fluctuation x 100,
\* the relative change of the price before rounding, to within half a
\* hundredth.
C8_PriceWithinRoundedBand ==
    Simulated
        => /\ 2 * Abs(100000 * resp.body[1].current_price
                        - BasePrice * (100000 + req.draw.fluctuation)) <= 100000
           /\ 2 * (85 * BasePrice - 100 * resp.body[1].current_price) <= 100
           /\ 2 * (100 * resp.body[1].current_price - 115 * BasePrice) <= 100
           /\ 2 * Abs(10 * resp.body[1].change_percent - req.draw.fluctuation) <= 10

C8_Witness ==
    /\ Simulated
    /\ COMMODITY_PRICES[req.index].commodity = "onions"
    /\ req.draw.fluctuation = 0 - FluctuationLimit
    /\ resp.body[1].current_price = 38
    /\ resp.body[1].change_percent = -1500

\* the weather call or the model call of the request failed
UpstreamFailed ==
    CASE req.ep = "weather" -> req.w # WeatherOk
      [] req.ep \in {"crop-suggestions", "yield-prediction"} ->
            req.w # WeatherOk \/ req.m = ModelDown
      [] req.ep \in {"ai-assistant", "soil-analysis"} -> req.m = ModelDown
      [] OTHER -> FALSE

\* C9: a request whose weather call or model call fails, or whose weather
\* reply has a non-success status, is answered with HTTP 500.
C9_UpstreamFailureIsServerError == UpstreamFailed => resp.status = 500

C9_Witness ==
    /\ resp.ep = "weather" /\ req.w = WeatherNotFound /\ resp.status = 500

FailedAdvisory(r, answer) ==
    r.ep \in {"crop-suggestions", "yield-prediction"} /\ answer.status # 200

\* C10 as stated: a crop-suggestions or yield-prediction request that ends
\* in an error leaves none of its records in the document store.
C10_FailedRequestStoresNothing ==
    [][FailedAdvisory(req', resp') => db' = db]_vars

IsPrefix(old, new) == Len(old) <= Len(new) /\ SubSeq(new, 1, Len(old)) = old

\* C10 amended: a crop-suggestions or yield-prediction request that ends in
\* an error returns no record; when its weather call failed the store is
\* unchanged; when its weather call succeeded the weather snapshot of the
\* request stays in the store, and it is the only record added when the
\* model call failed; no yield prediction is added, and only weather_data
\* and crop_suggestions can have grown.
C10_FailedRequestKeepsSnapshot ==
    [][FailedAdvisory(req', resp') =>
          /\ resp'.body = <<>>
          /\ req'.w # WeatherOk => db' = db
          /\ req'.w = WeatherOk =>
                /\ Len(db'.weather_data) = Len(db.weather_data) + 1
                /\ IsPrefix(db.weather_data, db'.weather_data)
                /\ db'.weather_data[Len(db'.weather_data)].location = req'.location
          /\ (req'.w = WeatherOk /\ req'.m = ModelDown) =>
                db'.crop_suggestions = db.crop_suggestions
          /\ IsPrefix(db.crop_suggestions, db'.crop_suggestions)
          /\ \A c \in Collections \ {"weather_data", "crop_suggestions"} : db'[c] = db[c]
      ]_vars

C10_Witness ==
    /\ resp.ep = "crop-suggestions" /\ resp.status = 500
    /\ req.w = WeatherOk /\ req.m = ModelDown
    /\ Len(db.weather_data) > 0
    /\ db.weather_data[Len(db.weather_data)].id = clock

Reads == {"get-crops", "recent-queries", "yield-history", "soil-history"}

\* C11: GET crops does not change the document store, and two GET crops
\* calls with no write between them return identical lists in identical
\* order: no read changes the store, a GET crops returns the crop records
\* as the store holds them (up to 1000), and one that directly follows
\* another returns the same list.
C11_GetCropsIsIdempotent ==
    [][/\ resp'.ep \in Reads => db' = db
       /\ resp'.ep = "get-crops" =>
             /\ resp'.status = 200
             /\ Len(db.crop_records) <= 1000 => resp'.body = db.crop_records
             /\ resp.ep = "get-crops" => resp'.body = resp.body
      ]_vars

C11_Witness ==
    /\ resp.ep = "get-crops" /\ req.repeated
    /\ Len(resp.body) > 1 /\ resp.body[1].crop_name # resp.body[2].crop_name

\* C12: no endpoint call updates or deletes a stored record: after every
\* call each collection holds the records it held before, unchanged and in
\* their places, followed by the records the call inserted.
C12_CollectionsOnlyGrow ==
    [][\A c \in Collections : IsPrefix(db[c], db'[c])]_vars

C12_Witness ==
    /\ resp.ep = "crops" /\ Len(db.crop_records) > 1
    /\ db.crop_records[Len(db.crop_records)] = resp.body[1]
    /\ db.crop_records[1].crop_name # resp.body[1].crop_name

\* the collection a history endpoint reads, the date it sorts by, and the
\* largest number of records it returns
Histories ==
    ("recent-queries" :> [c |-> "ai_queries", date |-> "timestamp", limit |-> 10])
    @@ ("yield-history" :> [c |-> "yield_predictions", date |-> "prediction_date", limit |-> 20])
    @@ ("soil-history" :> [c |-> "soil_analyses", date |-> "analysis_date", limit |-> 20])

\* the n records inserted last, the last one first
MostRecent(stored, n) ==
    [i \in 1..(IF Len(stored) < n THEN Len(stored) ELSE n) |-> stored[Len(stored) + 1 - i]]

\* C13: GET recent-queries returns at most 10 records and GET yield-history
\* and GET soil-history at most 20; the result is exactly the most recently
\* stored records of the collection, newest first by creation date.
C13_HistoriesReturnMostRecent ==
    resp.ep \in DOMAIN Histories =>
        LET h == Histories[resp.ep]
        IN  /\ resp.status = 200
            /\ Len(resp.body) <= h.limit
            /\ resp.body = MostRecent(db[h.c], h.limit)
            /\ \A i \in 1..Len(resp.body) : \A j \in (i + 1)..Len(resp.body) :
                    resp.body[i][h.date] > resp.body[j][h.date]

C13_Witness ==
    /\ resp.ep = "yield-history"
    /\ Len(db.yield_predictions) > 20
    /\ Len(resp.body) = 20
    /\ resp.body[1] = db.yield_predictions[Len(db.yield_predictions)]

\* C14: whenever the reply text parses as JSON the generator answers with a
\* success response, whatever JSON value the text holds; a yield reply
\* without predicted_yield_per_acre gives 2.5 per acre and one without
\* confidence_score gives confidence 75.
C14_ParsedReplySucceeds ==
    (Replied /\ resp.parsed.ok) =>
        /\ resp.status = 200
        /\ (resp.ep = "yield-prediction" /\ resp.parsed.val.t = "obj") =>
              /\ "predicted_yield_per_acre" \notin DOMAIN resp.parsed.val.fields
                    => 2 * Abs(100 * resp.body[1].predicted_yield - 25 * req.field_size) <= 100
              /\ "confidence_score" \notin DOMAIN resp.parsed.val.fields
                    => resp.body[1].confidence_score = 75

\* the text after the first fence-open marker
AfterFenceOpen(text) ==
    SubSeq(text, PyFind(text, FenceOpen, 0) + Len(FenceOpen) + 1, Len(text))

\* a text with a fence-open marker and no fence-close marker after it
Unclosed(text) ==
    PyContains(text, FenceOpen) /\ ~PyContains(AfterFenceOpen(text), FenceClose)

\* C15: a reply with a fence-open marker and no fence-close marker after it
\* ends in a success response, and the text handed to the JSON parser is
\* everything after the fence-open marker (surrounding whitespace aside).
C15_UnclosedFenceHandsRest ==
    (Replied /\ Unclosed(req.m.text)) =>
        /\ resp.status = 200
        /\ resp.handed = PyStrip(AfterFenceOpen(req.m.text))

\* C16: when extraction fails in crop-suggestions the response is a list of
\* exactly one suggestion with the generic crop name and season, the
\* request's location, the fetched weather description, and the raw,
\* unmodified reply text as its reason.
C16_FallbackWrapsRawText ==
    (resp.ep = "crop-suggestions" /\ resp.path = "fallback") =>
        /\ resp.status = 200 /\ resp.shape = "list" /\ Len(resp.body) = 1
        /\ resp.body[1].crop_name = "General crops suitable for current weather"
        /\ resp.body[1].season = "Current season"
        /\ resp.body[1].location = req.location
        /\ resp.body[1].weather_condition = req.w.main.description
        /\ resp.body[1].reason = req.m.text

=============================================================================
